---- MODULE Spec2Model ----
(***************************************************************************)
(* The paginated streams of gobilla's resources.go: Iterate performs the    *)
(* first Get and starts a worker goroutine (items, campaignResults,         *)
(* campaignStats, appItems) that hands the items of a page to the consumer  *)
(* over an unbuffered channel, then either closes the channel or fetches    *)
(* the next page and relaunches itself on it.                               *)
(***************************************************************************)
EXTENDS Integers, Sequences, FiniteSets, Bags, TLC

\* ------------------------------------------------------------- bounds
\* Streams that can be opened in one process.
Streams == {1, 2}
\* The longest result set of the server, in pages, when it is finite.
MaxPages == 3
\* The most items in one page.
MaxItems == 2
\* The LastTimestamp values the server answers with.
Timestamps == {100, 150}
\* The parameter maps a caller passes to Iterate; a map is a set of
\* <<key, value>> pairs with distinct keys.
ParamChoices ==
    { {},
      {<<"limit", "2">>},
      {<<"limit", "2">>, <<"since", "100">>} }
\* The ways to a resource that has Iterate.
Accessors ==
    { "Buttons.Feedback", "EmailButtons.Feedback", "Apps.Feedback",
      "Campaigns.Results", "Campaigns.Stats" }
\* The IDs a caller passes to Iterate.
IDs == {"x", "y"}

VARIABLES
    process,        \* "running" | "crashed": an unrecovered panic ends every goroutine
    trace,          \* TRUE: the server's result set is finite and the history is recorded
    caller,         \* [s]: "off" | "idle" | "calling" | "open" | "panicked"
    accessor,       \* [s]: the accessor the stream's resource was obtained through
    resourceID,     \* [s]: the buttonID, campaignID or appID passed to Iterate
    callerParams,   \* [s]: the map the caller passes to Iterate
    chan,           \* [s]: "nil" | "open" | "closed"
    workers,        \* [s]: bag of worker goroutines [pc, resp, idx, params]
    consumer,       \* [s]: "none" | "receiving" | "stopped" | "done"
    received,       \* [s]: history, the items the consumer received
    closes,         \* [s]: history, close(chan) calls executed
    fetchLog,       \* [s]: history, the fetches issued
    served,         \* [s]: history, the pages the fetches returned
    gets            \* [s]: history, the outcome of each Get call

vars == << process, trace, caller, accessor, resourceID, callerParams, chan, workers, consumer,
           received, closes, fetchLog, served, gets >>

\* ------------------------------------------------------------- helpers
\* m with key k set to v, as Go's m[k] = v.
MapSet(m, k, v) == {p \in m : p[1] # k} \cup {<<k, v>>}

MapHas(m, k) == \E p \in m : p[1] = k

MapGet(m, k) == (CHOOSE p \in m : p[1] = k)[2]

Digit(d) == <<"0", "1", "2", "3", "4", "5", "6", "7", "8", "9">>[d + 1]

RECURSIVE FormatUint(_)
FormatUint(n) ==
    IF n < 10 THEN Digit(n) ELSE FormatUint(n \div 10) \o Digit(n % 10)

\* strconv.FormatInt(n, 10)
FormatInt(n) == IF n < 0 THEN "-" \o FormatUint(-n) ELSE FormatUint(n)

\* The history is recorded only while trace holds.
Log(h, e) == IF trace THEN Append(h, e) ELSE h

RECURSIVE Concat(_)
\* The items of a sequence of pages, in page order and item order.
Concat(ps) ==
    IF ps = <<>> THEN <<>>
    ELSE Concat(SubSeq(ps, 1, Len(ps) - 1)) \o ps[Len(ps)].Items

\* ------------------------------------------------------------- server
\* The number the server gives the page it serves next on stream s.
PageNo(s) == IF trace THEN Len(served[s]) + 1 ELSE 0

\* n distinct items of page k.
PageItems(k, n) == [i \in 1..n |-> <<k, i>>]

\* The pages the server may answer the next fetch of stream s with: a finite
\* result set ends, at the latest, with page MaxPages.
ServerPages(s) ==
    { [Items |-> PageItems(PageNo(s), n), HasMore |-> h, LastTimestamp |-> t] :
        n \in 0..MaxItems,
        h \in (IF trace /\ Len(served[s]) + 1 >= MaxPages THEN {FALSE} ELSE BOOLEAN),
        t \in Timestamps }

NoPage == [Items |-> <<>>, HasMore |-> FALSE, LastTimestamp |-> 0]

\* What one network call can come to: the page, a transmission failure, an
\* HTTP error status, or a body that does not decode.
NetOutcomes(s) ==
    { [kind |-> "ok", page |-> p] : p \in ServerPages(s) }
    \cup { [kind |-> k, page |-> NoPage] : k \in {"transport", "status", "decode"} }

\* request.Get(): (data, err); err for a transmission failure or an HTTP
\* error status.
RequestGet(out) ==
    [data |-> out, err |-> out.kind \in {"transport", "status"}]

\* NewFeedbackResponse(data): (resp, err); err when the body does not decode.
NewResponse(data) ==
    IF data.kind = "decode"
    THEN [resp |-> NoPage, err |-> TRUE]
    ELSE [resp |-> data.page, err |-> FALSE]

\* ------------------------------------------------------------- URIs
\* The canonical URI constants, lines 9-24.
websitesURI == "/live/websites"

buttonURI == websitesURI \o "/button"

campaignURI == websitesURI \o "/campaign"

appsURI == "/live/apps"

emailURI == "/live/email"

emailButtonURI == emailURI \o "/button"

\* fmt.Sprintf(feedbackURI, base, id), with feedbackURI = "%s/%s/feedback".
feedbackURI(base, id) == base \o "/" \o id \o "/feedback"

\* fmt.Sprintf(campaignResultsURI, id)
campaignResultsURI(id) == campaignURI \o "/" \o id \o "/results"

\* fmt.Sprintf(campaignStatsURI, id)
campaignStatsURI(id) == campaignURI \o "/" \o id \o "/stats"

\* The resource type an accessor returns: Buttons.Feedback (lines 58-64),
\* Campaigns.Results (171-177), Campaigns.Stats (257-263), Apps.Feedback
\* (370-376), EmailButtons.Feedback (487-493).
Resource(a) ==
    CASE a = "Buttons.Feedback" -> "FeedbackItems"
      [] a = "EmailButtons.Feedback" -> "FeedbackItems"
      [] a = "Apps.Feedback" -> "AppFeedbackItems"
      [] a = "Campaigns.Results" -> "CampaignResults"
      [] a = "Campaigns.Stats" -> "CampaignStats"

\* The uri of the Request that the Get of a resource type builds: lines 78,
\* 191, 277 and 390.
GetURI(res, id) ==
    CASE res = "FeedbackItems" -> feedbackURI(buttonURI, id)
      [] res = "AppFeedbackItems" -> feedbackURI(appsURI, id)
      [] res = "CampaignResults" -> campaignResultsURI(id)
      [] res = "CampaignStats" -> campaignStatsURI(id)

\* ------------------------------------------------------------- Get
\* FeedbackItems.Get: how the call ends ("return" or "panic"), and resp, err.
Get(out) ==
    LET r == RequestGet(out) IN
    IF r.err
    THEN [end |-> "panic", resp |-> NoPage, err |-> TRUE]
    ELSE LET d == NewResponse(r.data) IN
         [end |-> "return", resp |-> d.resp, err |-> d.err]

\* CampaignResults.Get, lines 190-206.
CampaignResultsGet(out) ==
    LET r == RequestGet(out) IN
    IF r.err
    THEN [end |-> "panic", resp |-> NoPage, err |-> TRUE]
    ELSE LET d == NewResponse(r.data) IN
         [end |-> "return", resp |-> d.resp, err |-> d.err]

\* CampaignStats.Get, lines 276-292.
CampaignStatsGet(out) ==
    LET r == RequestGet(out) IN
    IF r.err
    THEN [end |-> "panic", resp |-> NoPage, err |-> TRUE]
    ELSE LET d == NewResponse(r.data) IN
         [end |-> "return", resp |-> d.resp, err |-> d.err]

\* AppFeedbackItems.Get, lines 389-405.
AppFeedbackItemsGet(out) ==
    LET r == RequestGet(out) IN
    IF r.err
    THEN [end |-> "panic", resp |-> NoPage, err |-> TRUE]
    ELSE LET d == NewResponse(r.data) IN
         [end |-> "return", resp |-> d.resp, err |-> d.err]

\* What the caller of Get sees: a page, an error value, or a panic.
GetResult(g) ==
    IF g.end = "panic" THEN "panic" ELSE IF g.err THEN "error" ELSE "page"

\* A record of the Get call that ended with g on network outcome out.
GetEntry(out, g) == [net |-> out.kind, res |-> GetResult(g)]

\* ------------------------------------------------------------- workers
\* (mutant) the relaunched worker starts its range loop at the second item.
NewWorker_SkipFirst(resp) == [pc |-> "loop", resp |-> resp, idx |-> 2, params |-> {}]

\* The goroutine started by `go items(fic, resp, f, buttonID)`.
NewWorker(resp) == [pc |-> "loop", resp |-> resp, idx |-> 1, params |-> {}]

\* (mutant) the `return` of line 139 is missing: the goroutine goes round its
\* `for` loop again, on the page it had.
Relaunch_NoReturn(w, resp) ==
    SetToBag({NewWorker(resp)}) (+) SetToBag({NewWorker(w.resp)})

\* The goroutines that w leaves behind at lines 137-139: the one it starts
\* on resp with `go items(fic, resp, f, buttonID)`, and not itself, as it
\* returns.
Relaunch(w, resp) == SetToBag({NewWorker(resp)})

Replace(b, old, new) == (b (-) SetToBag({old})) (+) SetToBag({new})

Remove(b, old) == b (-) SetToBag({old})

WorkersAt(s, pc) == {w \in BagToSet(workers[s]) : w.pc = pc}

\* How many worker goroutines of s are at pc.
CountAt(s, pc) ==
    LET R == WorkersAt(s, pc) IN
    IF R = {} THEN 0 ELSE BagCardinality([w \in R |-> workers[s][w]])

\* The fetches of s whose request is out and whose Get has not ended.
Outstanding(s) == (IF caller[s] = "calling" THEN 1 ELSE 0) + CountAt(s, "fetch")

\* (mutant) the loop stops one item early.
LoopDone_Early(w) == w.idx >= Len(w.resp.Items)

\* The range loop of line 120 has gone through every item of w's page.
LoopDone(w) == w.idx > Len(w.resp.Items)

\* (mutant) the channel has a buffer: a send completes with no receiver.
HandOff_Buffered(s) == consumer[s] \in {"receiving", "stopped"}

\* make(chan FeedbackItem), line 104: the channel has no buffer, so a send
\* completes only while the consumer is receiving.
HandOff(s) == consumer[s] = "receiving"

\* (mutant) an empty page ends the stream, whatever HasMore says.
CloseReady_OnEmpty(s, w) ==
    LoopDone(w) /\ (~w.resp.HasMore \/ w.resp.Items = <<>>)

\* The worker reaches close(fic): the loop is done and !resp.HasMore.
CloseReady(s, w) == LoopDone(w) /\ ~w.resp.HasMore

\* (mutant) the next page is fetched whatever HasMore says.
FetchReady_Always(s, w) == LoopDone(w)

\* (mutant) the next page is fetched only on the consumer's demand.
FetchReady_OnDemand(s, w) ==
    LoopDone(w) /\ w.resp.HasMore /\ consumer[s] = "receiving"

\* The worker reaches the next f.Get: the loop is done and resp.HasMore.
FetchReady(s, w) == LoopDone(w) /\ w.resp.HasMore

\* (mutant) the watermark is sent in seconds.
NextParams_Seconds(resp) == {<<"since", FormatInt(resp.LastTimestamp \div 1000)>>}

\* The params of the next fetch: lines 127-129.
NextParams(resp) == {<<"since", FormatInt(resp.LastTimestamp)>>}

\* ------------------------------------------------------------- the four workers
\* What a worker does that can be seen from outside it: a send of an item,
\* a Get with its params, a close, a panic.
Event(e) == [ev |-> e, item |-> <<0, 0>>, params |-> {}]

Fetch(params) == [ev |-> "Get", item |-> <<0, 0>>, params |-> params]

\* for _, item := range resp.Items { ch <- item }
Sends(its) == [i \in 1..Len(its) |-> [ev |-> "send", item |-> its[i], params |-> {}]]

\* The function returns, with no successor started.
Ended(events) == [events |-> events, go |-> FALSE, resp |-> NoPage]

\* The function starts itself anew on resp and returns.
Successor(events, resp) == [events |-> events, go |-> TRUE, resp |-> resp]

\* items, lines 118-141, as one run of the function body: what it does, in
\* order, given the page resp it was started with and the answers outs still
\* to come from the network (none: the Get has not ended); and whether it
\* ends by starting a successor, and on which page.
items(resp, outs) ==
    IF ~resp.HasMore
    THEN Ended(Sends(resp.Items) \o <<Event("close")>>)
    ELSE LET params == NextParams(resp)
             sofar == Sends(resp.Items) \o <<Fetch(params)>>
         IN  IF outs = <<>>
             THEN Ended(sofar)
             ELSE LET g == Get(Head(outs)) IN
                  IF g.end = "panic" \/ g.err
                  THEN Ended(sofar \o <<Event("panic")>>)
                  ELSE Successor(sofar, g.resp)

\* campaignResults, lines 231-254: as items, on crc and with CampaignResultsGet.
campaignResults(resp, outs) ==
    IF ~resp.HasMore
    THEN Ended(Sends(resp.Items) \o <<Event("close")>>)
    ELSE LET params == {<<"since", FormatInt(resp.LastTimestamp)>>}
             sofar == Sends(resp.Items) \o <<Fetch(params)>>
         IN  IF outs = <<>>
             THEN Ended(sofar)
             ELSE LET g == CampaignResultsGet(Head(outs)) IN
                  IF g.end = "panic" \/ g.err
                  THEN Ended(sofar \o <<Event("panic")>>)
                  ELSE Successor(sofar, g.resp)

\* (mutant) campaignStats returns on the last page without closing csc.
campaignStats_NoClose(resp, outs) ==
    IF ~resp.HasMore
    THEN Ended(Sends(resp.Items))
    ELSE LET params == {<<"since", FormatInt(resp.LastTimestamp)>>}
             sofar == Sends(resp.Items) \o <<Fetch(params)>>
         IN  IF outs = <<>>
             THEN Ended(sofar)
             ELSE LET g == CampaignStatsGet(Head(outs)) IN
                  IF g.end = "panic" \/ g.err
                  THEN Ended(sofar \o <<Event("panic")>>)
                  ELSE Successor(sofar, g.resp)

\* campaignStats, lines 317-340: as items, on csc and with CampaignStatsGet.
campaignStats(resp, outs) ==
    IF ~resp.HasMore
    THEN Ended(Sends(resp.Items) \o <<Event("close")>>)
    ELSE LET params == {<<"since", FormatInt(resp.LastTimestamp)>>}
             sofar == Sends(resp.Items) \o <<Fetch(params)>>
         IN  IF outs = <<>>
             THEN Ended(sofar)
             ELSE LET g == CampaignStatsGet(Head(outs)) IN
                  IF g.end = "panic" \/ g.err
                  THEN Ended(sofar \o <<Event("panic")>>)
                  ELSE Successor(sofar, g.resp)

\* appItems, lines 430-453: as items, on afic and with AppFeedbackItemsGet.
appItems(resp, outs) ==
    IF ~resp.HasMore
    THEN Ended(Sends(resp.Items) \o <<Event("close")>>)
    ELSE LET params == {<<"since", FormatInt(resp.LastTimestamp)>>}
             sofar == Sends(resp.Items) \o <<Fetch(params)>>
         IN  IF outs = <<>>
             THEN Ended(sofar)
             ELSE LET g == AppFeedbackItemsGet(Head(outs)) IN
                  IF g.end = "panic" \/ g.err
                  THEN Ended(sofar \o <<Event("panic")>>)
                  ELSE Successor(sofar, g.resp)

\* The four worker functions.
Workers == {"items", "campaignResults", "campaignStats", "appItems"}

Worker(f, resp, outs) ==
    CASE f = "items" -> items(resp, outs)
      [] f = "campaignResults" -> campaignResults(resp, outs)
      [] f = "campaignStats" -> campaignStats(resp, outs)
      [] f = "appItems" -> appItems(resp, outs)

RECURSIVE Run(_, _, _)
\* Everything the chain of workers f does, from the one started on resp.
Run(f, resp, outs) ==
    LET r == Worker(f, resp, outs) IN
    IF r.go THEN r.events \o Run(f, r.resp, Tail(outs)) ELSE r.events

\* (mutant) the worker writes its since into the map the caller passed.
CallerMap_Reused(p, resp) == MapSet(p, "since", FormatInt(resp.LastTimestamp))

\* The caller's map p after the worker's lines 127-129: params is a map of
\* its own, made by the literal, and the worker holds no reference to p.
CallerMap(p, resp) == p

\* A fetch as the history records it: the parameters sent, who sent it, and
\* how many items and pages the consumer and the stream had then.
FetchEntry(s, params, by) ==
    [uri |-> GetURI(Resource(accessor[s]), resourceID[s]),
     params |-> params, by |-> by,
     rcvd |-> Len(received[s]), pages |-> Len(served[s])]

\* ------------------------------------------------------------- Init
TypeInit ==
    /\ process = "running"
    /\ chan = [s \in Streams |-> "nil"]
    /\ workers = [s \in Streams |-> EmptyBag]
    /\ consumer = [s \in Streams |-> "none"]
    /\ received = [s \in Streams |-> <<>>]
    /\ closes = [s \in Streams |-> 0]
    /\ fetchLog = [s \in Streams |-> <<>>]
    /\ served = [s \in Streams |-> <<>>]
    /\ gets = [s \in Streams |-> <<>>]

\* One stream is opened, on the feedback of button "x", against a server
\* with a finite result set.
Init ==
    /\ TypeInit
    /\ trace = TRUE
    /\ accessor = [s \in Streams |-> "Buttons.Feedback"]
    /\ resourceID = [s \in Streams |-> "x"]
    /\ caller = [s \in Streams |-> IF s = 1 THEN "idle" ELSE "off"]
    /\ \E p \in ParamChoices :
         callerParams = [s \in Streams |-> IF s = 1 THEN p ELSE {}]

\* One stream is opened, against a server that may answer without end.
InitForever ==
    /\ TypeInit
    /\ trace = FALSE
    /\ accessor = [s \in Streams |-> "Buttons.Feedback"]
    /\ resourceID = [s \in Streams |-> "x"]
    /\ caller = [s \in Streams |-> IF s = 1 THEN "idle" ELSE "off"]
    /\ \E p \in ParamChoices :
         callerParams = [s \in Streams |-> IF s = 1 THEN p ELSE {}]

\* One stream is opened, through any accessor and on any ID, against a
\* server with a finite result set.
InitAccessors ==
    /\ TypeInit
    /\ trace = TRUE
    /\ caller = [s \in Streams |-> IF s = 1 THEN "idle" ELSE "off"]
    /\ \E a \in Accessors : accessor = [s \in Streams |-> a]
    /\ \E x \in IDs : resourceID = [s \in Streams |-> x]
    /\ \E p \in ParamChoices :
         callerParams = [s \in Streams |-> IF s = 1 THEN p ELSE {}]

\* Two streams are opened in one process, on the feedback of a button and
\* of an app, against servers that may answer without end.
InitTwo ==
    /\ TypeInit
    /\ trace = FALSE
    /\ accessor = [s \in Streams |-> IF s = 1 THEN "Buttons.Feedback" ELSE "Apps.Feedback"]
    /\ resourceID = [s \in Streams |-> "x"]
    /\ caller = [s \in Streams |-> "idle"]
    /\ callerParams \in [Streams -> ParamChoices]

\* ------------------------------------------------------------- Iterate
\* Iterate calls f.Get(buttonID, params): line 98, the request goes out.
IterateCall(s) ==
    /\ process = "running"
    /\ caller[s] = "idle"
    /\ caller' = [caller EXCEPT ![s] = "calling"]
    /\ fetchLog' = [fetchLog EXCEPT ![s] = Log(@, FetchEntry(s, callerParams[s], "Iterate"))]
    /\ UNCHANGED << process, trace, accessor, resourceID, callerParams, chan, workers, consumer,
                    received, closes, served, gets >>

\* The first Get ends: lines 98-108. On an error Iterate panics, and the
\* panic either is recovered up the caller's stack or ends the process;
\* otherwise the channel is made, the worker started, the channel returned.
IterateReturn(s) ==
    /\ process = "running"
    /\ caller[s] = "calling"
    /\ \E out \in NetOutcomes(s) :
         LET g == Get(out) IN
         /\ gets' = [gets EXCEPT ![s] = Log(@, GetEntry(out, g))]
         /\ IF g.end = "panic" \/ g.err
            THEN /\ caller' = [caller EXCEPT ![s] = "panicked"]
                 /\ \E recovered \in BOOLEAN :
                      process' = IF recovered THEN "running" ELSE "crashed"
                 /\ UNCHANGED << chan, workers, consumer, served >>
            ELSE /\ caller' = [caller EXCEPT ![s] = "open"]
                 /\ chan' = [chan EXCEPT ![s] = "open"]
                 /\ workers' = [workers EXCEPT ![s] = @ (+) SetToBag({NewWorker(g.resp)})]
                 /\ consumer' = [consumer EXCEPT ![s] = "receiving"]
                 /\ served' = [served EXCEPT ![s] = Log(@, g.resp)]
                 /\ UNCHANGED process
    /\ UNCHANGED << trace, accessor, resourceID, callerParams, received, closes, fetchLog >>

\* ------------------------------------------------------------- items
\* fic <- item, line 121: the handoff happens when the consumer receives.
\* A send on a closed channel panics.
itemsSend(s) ==
    /\ process = "running"
    /\ \E w \in WorkersAt(s, "loop") :
         /\ ~LoopDone(w)
         /\ IF chan[s] = "closed"
            THEN /\ process' = "crashed"
                 /\ UNCHANGED << workers, received >>
            ELSE /\ HandOff(s)
                 /\ received' = [received EXCEPT ![s] = Log(@, w.resp.Items[w.idx])]
                 /\ workers' = [workers EXCEPT ![s] =
                                  Replace(@, w, [w EXCEPT !.idx = @ + 1])]
                 /\ UNCHANGED process
    /\ UNCHANGED << trace, caller, accessor, resourceID, callerParams, chan, consumer, closes,
                    fetchLog, served, gets >>

\* !resp.HasMore after the range loop, lines 123-126: close(fic), return.
\* Closing a closed channel panics.
itemsClose(s) ==
    /\ process = "running"
    /\ \E w \in WorkersAt(s, "loop") :
         /\ CloseReady(s, w)
         /\ closes' = [closes EXCEPT ![s] = @ + 1]
         /\ IF chan[s] = "closed"
            THEN /\ process' = "crashed"
                 /\ UNCHANGED << chan, workers >>
            ELSE /\ chan' = [chan EXCEPT ![s] = "closed"]
                 /\ workers' = [workers EXCEPT ![s] = Remove(@, w)]
                 /\ UNCHANGED process
    /\ UNCHANGED << trace, caller, accessor, resourceID, callerParams, consumer, received,
                    fetchLog, served, gets >>

\* resp.HasMore after the range loop, lines 127-131: the params are built
\* and f.Get sends the request.
itemsFetch(s) ==
    /\ process = "running"
    /\ \E w \in WorkersAt(s, "loop") :
         /\ FetchReady(s, w)
         /\ LET params == NextParams(w.resp) IN
            /\ workers' = [workers EXCEPT ![s] =
                             Replace(@, w, [w EXCEPT !.pc = "fetch", !.params = params])]
            /\ fetchLog' = [fetchLog EXCEPT ![s] = Log(@, FetchEntry(s, params, "items"))]
            /\ callerParams' = [callerParams EXCEPT ![s] = CallerMap(@, w.resp)]
    /\ UNCHANGED << process, trace, caller, accessor, resourceID, chan, consumer,
                    received, closes, served, gets >>

\* f.Get ends, lines 131-139: panic on an error, which no one can recover
\* in this goroutine; otherwise `go items(fic, resp, f, buttonID)` and
\* return, after which this goroutine touches nothing.
itemsFetched(s) ==
    /\ process = "running"
    /\ \E w \in WorkersAt(s, "fetch") :
       \E out \in NetOutcomes(s) :
         LET g == Get(out) IN
         /\ gets' = [gets EXCEPT ![s] = Log(@, GetEntry(out, g))]
         /\ IF g.end = "panic" \/ g.err
            THEN /\ process' = "crashed"
                 /\ UNCHANGED << workers, served >>
            ELSE /\ workers' = [workers EXCEPT ![s] =
                                  Remove(@, w) (+) Relaunch(w, g.resp)]
                 /\ served' = [served EXCEPT ![s] = Log(@, g.resp)]
                 /\ UNCHANGED process
    /\ UNCHANGED << trace, caller, accessor, resourceID, callerParams, chan, consumer, received,
                    closes, fetchLog >>

\* ------------------------------------------------------------- consumer
\* The consumer's `for item := range ch` ends when the channel is closed.
ConsumerEnd(s) ==
    /\ process = "running"
    /\ consumer[s] = "receiving"
    /\ chan[s] = "closed"
    /\ consumer' = [consumer EXCEPT ![s] = "done"]
    /\ UNCHANGED << process, trace, caller, accessor, resourceID, callerParams, chan, workers,
                    received, closes, fetchLog, served, gets >>

\* The consumer abandons the channel.
ConsumerStop(s) ==
    /\ process = "running"
    /\ consumer[s] = "receiving"
    /\ consumer' = [consumer EXCEPT ![s] = "stopped"]
    /\ UNCHANGED << process, trace, caller, accessor, resourceID, callerParams, chan, workers,
                    received, closes, fetchLog, served, gets >>

\* ------------------------------------------------------------- Next
Next ==
    \E s \in Streams :
        \/ IterateCall(s)
        \/ IterateReturn(s)
        \/ itemsSend(s)
        \/ itemsClose(s)
        \/ itemsFetch(s)
        \/ itemsFetched(s)
        \/ ConsumerEnd(s)
        \/ ConsumerStop(s)

Spec == Init /\ [][Next]_vars

\* A step of one of the goroutines of stream s: its caller, its workers,
\* the network call they wait for, or its consumer seeing the close.
Progress(s) ==
    \/ IterateCall(s)
    \/ IterateReturn(s)
    \/ itemsSend(s)
    \/ itemsClose(s)
    \/ itemsFetch(s)
    \/ itemsFetched(s)
    \/ ConsumerEnd(s)

\* The Go scheduler does not leave the goroutines of a stream waiting for
\* ever while one of them can take a step, and a network call ends; nothing
\* makes a consumer go on receiving.
Fairness == \A s \in Streams : WF_vars(Progress(s))

FairSpec == Init /\ [][Next]_vars /\ Fairness

SpecForever == InitForever /\ [][Next]_vars /\ Fairness

SpecTwo == InitTwo /\ [][Next]_vars /\ Fairness

SpecAccessors == InitAccessors /\ [][Next]_vars

\* ------------------------------------------------------------- claims
IsPrefix(a, b) == Len(a) <= Len(b) /\ a = SubSeq(b, 1, Len(a))

\* The number of items in the pages ps.
Total(ps) == Len(Concat(ps))

\* The first k pages served on s.
Pages(s, k) == SubSeq(served[s], 1, k)

\* C1: what the consumer has received is always a prefix of the items of the
\* pages served, in page and item order; close(chan) is called at most once;
\* once the channel is closed the last page had HasMore false, everything
\* served was received, nothing more is received and the channel stays
\* closed; and an open channel leads to the consumer seeing the close,
\* unless the consumer stops receiving or a fetch fails.
C1_ExactDelivery ==
    /\ [](\A s \in Streams :
            /\ IsPrefix(received[s], Concat(served[s]))
            /\ closes[s] <= 1
            /\ chan[s] = "closed" =>
                 /\ closes[s] = 1
                 /\ received[s] = Concat(served[s])
                 /\ ~served[s][Len(served[s])].HasMore)
    /\ [][\A s \in Streams :
            chan[s] = "closed" =>
              chan'[s] = "closed" /\ received'[s] = received[s]]_vars
    /\ \A s \in Streams :
         (chan[s] = "open") ~>
           (consumer[s] \in {"done", "stopped"} \/ process = "crashed")

\* C1 witness: three pages were served, with items on two of them, and the
\* consumer saw the close.
C1_Witness ==
    /\ consumer[1] = "done"
    /\ Len(served[1]) = 3
    /\ served[1][1].Items # <<>>
    /\ served[1][3].Items # <<>>
    /\ Len(received[1]) >= 3

\* C2: at most one fetch of a stream is outstanding; when fetch k > 1 is
\* issued, k-1 pages have been served and the consumer has received every
\* item of them; and a worker in its range loop is ahead of the consumer by
\* nothing but the item it is handing off.
C2_OneFetchNoRunAhead ==
    \A s \in Streams :
        /\ Outstanding(s) <= 1
        /\ \A k \in 2..Len(fetchLog[s]) :
             /\ fetchLog[s][k].pages = k - 1
             /\ fetchLog[s][k].rcvd = Total(Pages(s, k - 1))
        /\ \A w \in WorkersAt(s, "loop") :
             Len(received[s]) = Total(Pages(s, Len(served[s]) - 1)) + w.idx - 1

\* C2 witness: the third fetch is outstanding after two pages with items.
C2_Witness ==
    /\ Outstanding(1) = 1
    /\ Len(fetchLog[1]) = 3
    /\ Len(served[1]) = 2
    /\ Len(received[1]) >= 3

\* The decimal encoding of the timestamps, written out.
Decimal(t) == CASE t = 100 -> "100" [] t = 150 -> "150"

\* C3: fetch k > 1 carries since, and its value is the decimal encoding of
\* the LastTimestamp of page k-1.
C3_SinceIsPreviousWatermark ==
    \A s \in Streams :
        \A k \in 2..Len(fetchLog[s]) :
            /\ k - 1 <= Len(served[s])
            /\ MapHas(fetchLog[s][k].params, "since")
            /\ MapGet(fetchLog[s][k].params, "since")
                 = Decimal(served[s][k - 1].LastTimestamp)

\* C3 witness: the third fetch went out, the first two pages had different
\* watermarks, and the caller's since was neither the one sent.
C3_Witness ==
    /\ Len(fetchLog[1]) = 3
    /\ served[1][1].LastTimestamp = 100
    /\ served[1][2].LastTimestamp = 150
    /\ callerParams[1] = {<<"limit", "2">>, <<"since", "100">>}

\* C4: the parameter map of fetch k > 1 is the caller's map with only since
\* overwritten.
C4_FiltersCarried ==
    \A s \in Streams :
        \A k \in 2..Len(fetchLog[s]) :
            /\ MapHas(fetchLog[s][k].params, "since")
            /\ fetchLog[s][k].params =
                 MapSet(callerParams[s], "since", MapGet(fetchLog[s][k].params, "since"))

\* The run of s is over: its Get number k > 1 failed.
MidStreamFailure(s) ==
    /\ Len(gets[s]) > 1
    /\ gets[s][Len(gets[s])].res # "page"

\* C5: after a failed fetch k > 1 the consumer has exactly the items of
\* pages 1..k-1 and, once nothing more can happen, has been given a failure
\* signal, with the channel closed, no worker left and the process alive.
C5_FailureDelivered ==
    \A s \in Streams :
        MidStreamFailure(s) =>
            /\ IsPrefix(received[s], Concat(served[s]))
            /\ ~ENABLED Next =>
                 /\ received[s] = Concat(served[s])
                 /\ consumer[s] = "failed"
                 /\ chan[s] = "closed"
                 /\ workers[s] = EmptyBag
                 /\ process = "running"

\* The first Get of s, made by Iterate, failed.
OpenFailure(s) ==
    /\ Len(gets[s]) = 1
    /\ gets[s][1].res # "page"

\* C6: when the first Get fails Iterate returns an error to its caller, no
\* channel is made and no worker is started.
C6_OpenFailureReturned ==
    \A s \in Streams :
        OpenFailure(s) =>
            /\ caller[s] = "error"
            /\ process = "running"
            /\ chan[s] = "nil"
            /\ workers[s] = EmptyBag

\* C7: a worker whose page is empty can go on at once, to the next fetch if
\* HasMore and to the close if not, whether or not the consumer receives;
\* nothing is received between the fetch that brought an empty page and the
\* fetch or the close that follows it.
C7_EmptyPage ==
    \A s \in Streams :
        /\ \A w \in WorkersAt(s, "loop") :
             (process = "running" /\ w.resp.Items = <<>>) =>
                IF w.resp.HasMore THEN ENABLED itemsFetch(s) ELSE ENABLED itemsClose(s)
        /\ \A k \in 2..Len(fetchLog[s]) :
             (k - 1 <= Len(served[s]) /\ served[s][k - 1].Items = <<>>) =>
                fetchLog[s][k].rcvd = fetchLog[s][k - 1].rcvd
        /\ (chan[s] = "closed" /\ served[s][Len(served[s])].Items = <<>>) =>
                Len(received[s]) = fetchLog[s][Len(fetchLog[s])].rcvd

\* C7 witness: the consumer stopped before receiving anything, the first
\* page was empty with HasMore, the second fetch went out and brought an
\* empty last page, and the channel is closed.
C7_Witness ==
    /\ consumer[1] = "stopped"
    /\ Len(served[1]) = 2
    /\ served[1][1].Items = <<>> /\ served[1][1].HasMore
    /\ served[1][2].Items = <<>>
    /\ chan[1] = "closed"

\* C8: every Get call that meets a failure of the network call hands its
\* caller an error value.
C8_GetReturnsError ==
    \A s \in Streams :
        \A k \in 1..Len(gets[s]) :
            gets[s][k].net # "ok" => gets[s][k].res = "error"

\* Every page the workers of s were started on has HasMore.
AllMore(s) == \A w \in BagToSet(workers[s]) : w.resp.HasMore

\* C9: on a stream that is opened, whose consumer never stops receiving,
\* whose pages all have HasMore and whose fetches never fail, the channel
\* is never closed and a fetch is outstanding again and again.
C9_FetchesForever ==
    \A s \in Streams :
        ( /\ <>(chan[s] = "open")
          /\ [](consumer[s] # "stopped")
          /\ []AllMore(s)
          /\ [](process = "running") )
        => ( /\ [](chan[s] # "closed")
             /\ []<>(Outstanding(s) = 1) )

\* C9 witness: a worker has handed two items to a consumer that still
\* receives, and its fetch of the next page is outstanding.
C9_Witness ==
    /\ consumer[1] = "receiving"
    /\ chan[1] = "open"
    /\ \E w \in WorkersAt(1, "fetch") : w.resp.HasMore /\ w.idx = 3

\* A worker of s is in its loop or in a fetch.
Live(s) == process = "running" /\ workers[s] # EmptyBag

\* C10: while the consumer has stopped and a worker has an item to hand
\* off, no step changes that worker, the channel (which stays open), the
\* fetches issued or the consumer; and the workers of a stream end only by
\* the close after a page without HasMore or by a failed fetch.
C10_NoCancellation ==
    [][\A s \in Streams :
         /\ \A w \in WorkersAt(s, "loop") :
              (consumer[s] = "stopped" /\ w.idx <= Len(w.resp.Items)) =>
                 /\ w \in BagToSet(workers'[s])
                 /\ chan[s] = "open" /\ chan'[s] = "open"
                 /\ fetchLog'[s] = fetchLog[s]
                 /\ consumer'[s] = "stopped"
         /\ (Live(s) /\ ~Live(s)') =>
              \/ /\ chan[s] = "open" /\ chan'[s] = "closed"
                 /\ ~served[s][Len(served[s])].HasMore
              \/ /\ process' = "crashed"
                 /\ \E r \in Streams :
                      /\ Len(gets'[r]) = Len(gets[r]) + 1
                      /\ gets'[r][Len(gets'[r])].res # "page"]_vars

\* C10 witness: the consumer stopped after the first item of two, on a page
\* with HasMore.
C10_Witness ==
    /\ consumer[1] = "stopped"
    /\ \E w \in WorkersAt(1, "loop") :
         w.idx = 2 /\ Len(w.resp.Items) = 2 /\ w.resp.HasMore

\* Everything that belongs to stream s.
StreamState(s) ==
    << caller[s], accessor[s], resourceID[s], callerParams[s], chan[s], workers[s], consumer[s],
       received[s], closes[s], fetchLog[s], served[s], gets[s] >>

\* C11: a step of stream r, taken while no Get of another stream s is
\* outstanding, changes nothing that belongs to s and leaves the workers of
\* s able to go on as they would alone.
C11_Independent ==
    [][\A r \in Streams : \A s \in Streams \ {r} :
         ((Progress(r) \/ ConsumerStop(r)) /\ Outstanding(s) = 0) =>
            /\ StreamState(s)' = StreamState(s)
            /\ Live(s) => Live(s)']_vars

\* No Get of s has failed.
NoFailure(s) == \A k \in 1..Len(gets[s]) : gets[s][k].res = "page"

\* The pages served on s that had HasMore.
MorePages(s) == {k \in 1..Len(served[s]) : served[s][k].HasMore}

\* C12: while no fetch has failed, the fetches issued are the pages served
\* plus the one outstanding, and never more than one plus the pages that had
\* HasMore, with equality once the channel is closed; and no step issues a
\* fetch after a page without HasMore or after the close.
C12_FetchCount ==
    /\ [](\A s \in Streams :
            NoFailure(s) =>
              /\ Len(fetchLog[s]) = Len(served[s]) + Outstanding(s)
              /\ fetchLog[s] # <<>> => Len(fetchLog[s]) <= 1 + Cardinality(MorePages(s))
              /\ chan[s] = "closed" =>
                   /\ Len(fetchLog[s]) = Len(served[s])
                   /\ Len(fetchLog[s]) = 1 + Cardinality(MorePages(s)))
    /\ [][\A s \in Streams :
            (\/ chan[s] = "closed"
             \/ served[s] # <<>> /\ ~served[s][Len(served[s])].HasMore) =>
               fetchLog'[s] = fetchLog[s]]_vars

\* C12 witness: three fetches brought three pages, two of them with HasMore,
\* and the channel is closed.
C12_Witness ==
    /\ chan[1] = "closed"
    /\ Len(fetchLog[1]) = 3
    /\ Len(served[1]) = 3
    /\ Len(received[1]) >= 2

\* The goroutines of s that can still send on or close the channel.
Senders(s) == IF workers[s] = EmptyBag THEN 0 ELSE BagCardinality(workers[s])

\* C13: a stream never has more than one worker that can send on or close
\* its channel; a closed channel has none, so nothing is sent on it and it
\* is not closed again; close is called at most once; and the worker started
\* by a relaunch is the only one the step leaves.
C13_OneSender ==
    /\ [](\A s \in Streams :
            /\ Senders(s) <= 1
            /\ closes[s] <= 1
            /\ chan[s] = "nil" => Senders(s) = 0
            /\ chan[s] = "closed" => Senders(s) = 0 /\ closes[s] = 1)
    /\ [][\A s \in Streams :
            Len(served'[s]) > Len(served[s]) =>
               /\ workers'[s] = SetToBag({NewWorker(served'[s][Len(served'[s])])})
               /\ chan'[s] = "open"
               /\ received'[s] = received[s]]_vars

\* C13 witness: the third worker of the chain is in its loop, after the
\* first two sent their items and relaunched.
C13_Witness ==
    /\ Len(served[1]) = 3
    /\ Len(received[1]) >= 3
    /\ chan[1] = "open"
    /\ \E w \in WorkersAt(1, "loop") : w.resp = served[1][3] /\ w.idx = 2

\* The feedback URI of each family, as the API lays them out.
FamilyFeedbackURI(a, id) ==
    CASE a = "Buttons.Feedback" -> "/live/websites/button/" \o id \o "/feedback"
      [] a = "Apps.Feedback" -> "/live/apps/" \o id \o "/feedback"
      [] a = "EmailButtons.Feedback" -> "/live/email/button/" \o id \o "/feedback"

\* C15: every fetch of a stream obtained through Buttons.Feedback(),
\* Apps.Feedback() or EmailButtons.Feedback(), the first one and the later
\* ones, goes to the feedback URI of that family for the ID given.
C15_FamilyURI ==
    \A s \in Streams :
        accessor[s] \in {"Buttons.Feedback", "Apps.Feedback", "EmailButtons.Feedback"} =>
            \A k \in 1..Len(fetchLog[s]) :
                fetchLog[s][k].uri = FamilyFeedbackURI(accessor[s], resourceID[s])

\* The answers the network gave on s after the first one, in order.
Script(s) ==
    [k \in 1..(Len(served[s]) - 1) |-> [kind |-> "ok", page |-> served[s][k + 1]]]
    \o (IF Len(gets[s]) >= 2 /\ gets[s][Len(gets[s])].res # "page"
        THEN << [kind |-> gets[s][Len(gets[s])].net, page |-> NoPage] >>
        ELSE << >>)

\* The items sent, and the params of the Gets, in a run.
SendsOf(run) == [i \in 1..Len(SelectSeq(run, LAMBDA e : e.ev = "send")) |->
                   SelectSeq(run, LAMBDA e : e.ev = "send")[i].item]

GetsOf(run) == [i \in 1..Len(SelectSeq(run, LAMBDA e : e.ev = "Get")) |->
                  SelectSeq(run, LAMBDA e : e.ev = "Get")[i].params]

\* The params of the fetches the workers of s have sent.
WorkerFetches(s) == [k \in 1..(Len(fetchLog[s]) - 1) |-> fetchLog[s][k + 1].params]

\* C14: started on the same first page and given the same answers from the
\* network, items, campaignResults, campaignStats and appItems do the same
\* things in the same order: the same sends, the same Gets with the same
\* params, the same close or the same panic. And that run is the one the
\* stream goes through: its items are received in that order, its Gets are
\* sent in that order, and a closed channel is its close.
C14_WorkersEquivalent ==
    \A s \in Streams :
        served[s] # << >> =>
            LET run == Run("items", served[s][1], Script(s)) IN
            /\ \A f \in Workers : Run(f, served[s][1], Script(s)) = run
            /\ IsPrefix(received[s], SendsOf(run))
            /\ IsPrefix(WorkerFetches(s), GetsOf(run))
            /\ chan[s] = "closed" =>
                 /\ run[Len(run)].ev = "close"
                 /\ received[s] = SendsOf(run)
                 /\ WorkerFetches(s) = GetsOf(run)

\* C14 witness: a stream of three pages with items ran to its close, so each
\* worker function ran three times: sends, two Gets, and the close.
C14_Witness ==
    /\ chan[1] = "closed"
    /\ Len(Script(1)) = 2
    /\ Len(received[1]) >= 3
    /\ Len(Run("appItems", served[1][1], Script(1))) = Len(received[1]) + 3

\* C16: no step of Iterate or of a worker changes the map the caller passed,
\* and the first fetch of a stream carries exactly that map: whatever has
\* been fetched since, the caller's map is the one the first fetch was sent
\* with.
C16_CallerMapUntouched ==
    /\ [](\A s \in Streams :
            fetchLog[s] # << >> =>
                /\ fetchLog[s][1].by = "Iterate"
                /\ fetchLog[s][1].params = callerParams[s])
    /\ [][callerParams' = callerParams]_vars

\* C16 witness: the caller passed a since of its own, and two workers have
\* sent fetches with theirs, the last a different one.
C16_Witness ==
    /\ Len(fetchLog[1]) = 3
    /\ <<"since", "100">> \in callerParams[1]
    /\ <<"since", "150">> \in fetchLog[1][3].params
    /\ fetchLog[1][3].by = "items"

====
